---------------------------- MODULE Spec2Model ----------------------------
(***************************************************************************)
(* Uplink configuration manager (api/code/uplink.go): the WPA and PPP      *)
(* config stores, their daemon-file generators and the two HTTP update     *)
(* handlers, as a state machine.                                           *)
(*                                                                         *)
(* Files are modelled by their content: a path holds <<>> when the file    *)
(* does not exist and <<content>> when it does.  Go strings are TLA+       *)
(* strings; Text(s) gives the characters of a string, and every check the  *)
(* code makes on a string (newline search, Atoi, regexp, Split) is         *)
(* computed on those characters.                                           *)
(***************************************************************************)
EXTENDS Integers, Sequences, FiniteSets, TLC

(***************************************************************************)
(* Strings                                                                 *)
(***************************************************************************)
\* The key_mgmt strings a client can send are built from these pieces: the
\* three tokens wpa_supplicant is given, a token it is never given, a space.
KeyMgmtUnits == {"WPA-PSK", "WPA-PSK-SHA256", "SAE", "WEP", " "}

MaxUnits == 3

UnitText(u) ==
  CASE u = "WPA-PSK" -> <<"W", "P", "A", "-", "P", "S", "K">>
    [] u = "WPA-PSK-SHA256" ->
         <<"W", "P", "A", "-", "P", "S", "K", "-", "S", "H", "A", "2", "5", "6">>
    [] u = "SAE"     -> <<"S", "A", "E">>
    [] u = "WEP"     -> <<"W", "E", "P">>
    [] u = " "       -> <<" ">>

UnitSeqs == UNION {[1..n -> KeyMgmtUnits] : n \in 1..MaxUnits}

\* The string made of the pieces us, and its characters.
RECURSIVE Join(_)
Join(us) == IF us = <<>> THEN "" ELSE us[1] \o Join(Tail(us))

RECURSIVE JoinText(_)
JoinText(us) == IF us = <<>> THEN <<>> ELSE UnitText(us[1]) \o JoinText(Tail(us))

KeyMgmtStrings == {""} \cup {Join(us) : us \in UnitSeqs}

Text(s) ==
  CASE s = ""          -> <<>>
    [] s = "wlan1"     -> <<"w", "l", "a", "n", "1">>
    [] s = "wlan2"     -> <<"w", "l", "a", "n", "2">>
    [] s = "wl/1"      -> <<"w", "l", "/", "1">>
    [] s = "Home"      -> <<"H", "o", "m", "e">>
    [] s = "Ho\nme"    -> <<"H", "o", "\n", "m", "e">>
    [] s = "se\ncret"  -> <<"s", "e", "\n", "c", "r", "e", "t">>
    [] s = "al\nice"   -> <<"a", "l", "\n", "i", "c", "e">>
    [] s = "p\nw"      -> <<"p", "\n", "w">>
    [] s = "secret123" -> <<"s", "e", "c", "r", "e", "t", "1", "2", "3">>
    [] s = "WPA-PSK WPA-PSK-SHA256" ->
         <<"W", "P", "A", "-", "P", "S", "K", " ",
           "W", "P", "A", "-", "P", "S", "K", "-", "S", "H", "A", "2", "5", "6">>
    [] s = "WPA-PSK"   -> <<"W", "P", "A", "-", "P", "S", "K">>
    [] s = "WPA-PSK-SHA256" ->
         <<"W", "P", "A", "-", "P", "S", "K", "-", "S", "H", "A", "2", "5", "6">>
    [] s = "SAE"       -> <<"S", "A", "E">>
    [] s = "alice"     -> <<"a", "l", "i", "c", "e">>
    [] s = "bob"       -> <<"b", "o", "b">>
    [] s = "pw"        -> <<"p", "w">>
    [] s = "pw2"       -> <<"p", "w", "2">>
    [] s = "10"        -> <<"1", "0">>
    [] s = "abc"       -> <<"a", "b", "c">>
    [] s = "1492"      -> <<"1", "4", "9", "2">>
    [] s = "-1"        -> <<"-", "1">>
    [] s = "aa:bb:cc:00:11:22" ->
         <<"a", "a", ":", "b", "b", ":", "c", "c", ":", "0", "0", ":", "1", "1", ":", "2", "2">>
    [] OTHER           -> JoinText(CHOOSE us \in UnitSeqs : Join(us) = s)

Digits == {"0", "1", "2", "3", "4", "5", "6", "7", "8", "9"}

Letters ==
  {"a", "b", "c", "d", "e", "f", "g", "h", "i", "j", "k", "l", "m",
   "n", "o", "p", "q", "r", "s", "t", "u", "v", "w", "x", "y", "z",
   "A", "B", "C", "D", "E", "F", "G", "H", "I", "J", "K", "L", "M",
   "N", "O", "P", "Q", "R", "S", "T", "U", "V", "W", "X", "Y", "Z"}

HexDigits == Digits \cup {"a", "b", "c", "d", "e", "f", "A", "B", "C", "D", "E", "F"}

\* strings.Contains(s, "\n")
ContainsNewline(s) == \E i \in 1..Len(Text(s)) : Text(s)[i] = "\n"

\* strconv.Atoi(s): an optional sign followed by at least one decimal digit.
\* The result is [ok, neg]: whether it parses and, if so, whether it is < 0.
Atoi(s) ==
  LET t      == Text(s)
      signed == Len(t) > 0 /\ t[1] \in {"+", "-"}
      body   == IF signed THEN SubSeq(t, 2, Len(t)) ELSE t
  IN  [ok  |-> Len(body) > 0 /\ \A i \in 1..Len(body) : body[i] \in Digits,
       neg |-> signed /\ t[1] = "-" /\ \E i \in 1..Len(body) : body[i] # "0"]

\* regexp ^([0-9A-Fa-f]{2}[:-]){5}([0-9A-Fa-f]{2})$
MatchMAC(s) ==
  LET t == Text(s)
  IN  /\ Len(t) = 17
      /\ \A i \in 1..17 : IF i % 3 = 0 THEN t[i] \in {":", "-"}
                                       ELSE t[i] \in HexDigits

\* regexp ^[a-zA-Z0-9]*(\.[a-zA-Z0-9]*)*$ : any run of letters, digits and dots.
MatchIfaceName(s) ==
  \A i \in 1..Len(Text(s)) : Text(s)[i] \in Letters \cup Digits \cup {"."}

\* strings.Fields in place of strings.Split: the empty pieces are dropped.
RECURSIVE SplitSpace_Fields(_)
SplitSpace_Fields(t) ==
  IF \A i \in 1..Len(t) : t[i] # " "
  THEN (IF t = <<>> THEN <<>> ELSE <<t>>)
  ELSE LET k == CHOOSE i \in 1..Len(t) :
                  t[i] = " " /\ \A j \in 1..(i - 1) : t[j] # " "
       IN  (IF k = 1 THEN <<>> ELSE <<SubSeq(t, 1, k - 1)>>)
           \o SplitSpace_Fields(SubSeq(t, k + 1, Len(t)))

\* strings.Split(s, " ") on the characters t: the pieces between single spaces,
\* empty pieces included (a leading, trailing or doubled space yields one).
RECURSIVE SplitSpace(_)
SplitSpace(t) ==
  IF \A i \in 1..Len(t) : t[i] # " "
  THEN <<t>>
  ELSE LET k == CHOOSE i \in 1..Len(t) :
                  t[i] = " " /\ \A j \in 1..(i - 1) : t[j] # " "
       IN  <<SubSeq(t, 1, k - 1)>> \o SplitSpace(SubSeq(t, k + 1, Len(t)))

(***************************************************************************)
(* WPA records and their validation                                        *)
(***************************************************************************)
DefaultKeyMgmt == "WPA-PSK WPA-PSK-SHA256"

KeyMgmtTokens == {Text("WPA-PSK"), Text("WPA-PSK-SHA256"), Text("SAE")}

\* A Validate that does not look for a newline in the password.
WPANetworkValidate_NoPasswordCheck(n) ==
  IF ContainsNewline(n.SSID) THEN "SSID field contains newline characters"
  ELSE IF n.Priority # "" /\ ~Atoi(n.Priority).ok
       THEN "Priority field must contain numeric value"
  ELSE IF n.BSSID # "" /\ ~MatchMAC(n.BSSID)
       THEN "BSSID field must be a valid MAC address"
  ELSE IF n.KeyMgmt = "" THEN "KeyMgmt field must be set"
  ELSE LET parts == SplitSpace(Text(n.KeyMgmt))
       IN  IF \A i \in 1..Len(parts) : parts[i] \in KeyMgmtTokens
           THEN ""
           ELSE "KeyMgmt field has invalid field"

\* (n *WPANetwork) Validate: "" is nil, anything else the error text.
WPANetworkValidate(n) ==
  IF ContainsNewline(n.Password) THEN "Password field contains newline characters"
  ELSE IF ContainsNewline(n.SSID) THEN "SSID field contains newline characters"
  ELSE IF n.Priority # "" /\ ~Atoi(n.Priority).ok
       THEN "Priority field must contain numeric value"
  ELSE IF n.BSSID # "" /\ ~MatchMAC(n.BSSID)
       THEN "BSSID field must be a valid MAC address"
  ELSE IF n.KeyMgmt = "" THEN "KeyMgmt field must be set"
  ELSE LET parts == SplitSpace(Text(n.KeyMgmt))
       IN  IF \A i \in 1..Len(parts) : parts[i] \in KeyMgmtTokens
           THEN ""
           ELSE "KeyMgmt field has invalid field"

\* The zero value WPAIface{}.
EmptyWPAIface == [Iface |-> "", Enabled |-> FALSE, Networks |-> <<>>]

\* The loop of updateWpaSupplicantConfig over wpa.Networks: the loop variable
\* is a copy, so the KeyMgmt default is given to the copy that is validated
\* and not to wpa.Networks.  Result: the first validation error ("" if none).
RECURSIVE ValidateNetworks(_, _)
ValidateNetworks(networks, i) ==
  IF i > Len(networks) THEN ""
  ELSE LET network == IF networks[i].KeyMgmt = ""
                      THEN [networks[i] EXCEPT !.KeyMgmt = DefaultKeyMgmt]
                      ELSE networks[i]
           err     == WPANetworkValidate(network)
       IN  IF err # "" THEN err ELSE ValidateNetworks(networks, i + 1)

\* enabled: at least one network of the request is not Disabled.
AnyNetworkEnabled(networks) == \E i \in 1..Len(networks) : ~networks[i].Disabled

(***************************************************************************)
(* Interface registry snapshot lookups                                     *)
(***************************************************************************)
\* The first entry named Name decides (the loop breaks on it).
FirstNamed(Name, interfaces) ==
  IF \E i \in 1..Len(interfaces) : interfaces[i].Name = Name
  THEN LET k == CHOOSE i \in 1..Len(interfaces) :
                  /\ interfaces[i].Name = Name
                  /\ \A j \in 1..(i - 1) : interfaces[j].Name # Name
       IN  <<interfaces[k]>>
  ELSE <<>>

\* A lookup that does not compare the subtype.
isWifiUplinkIfaceEnabled_AnySubtype(Name, interfaces) ==
  LET e == FirstNamed(Name, interfaces)
  IN  IF e # <<>> /\ e[1].Type = "Uplink"
      THEN e[1].Enabled
      ELSE FALSE

\* Lines 89-99.
isWifiUplinkIfaceEnabled(Name, interfaces) ==
  LET e == FirstNamed(Name, interfaces)
  IN  IF e # <<>> /\ e[1].Type = "Uplink" /\ e[1].Subtype = "wifi"
      THEN e[1].Enabled
      ELSE FALSE

isPPPUplinkIfaceEnabled(Name, interfaces) ==
  LET e == FirstNamed(Name, interfaces)
  IN  IF e # <<>> /\ e[1].Type = "Uplink" /\ e[1].Subtype = "ppp"
      THEN e[1].Enabled
      ELSE FALSE

(***************************************************************************)
(* The WPA store: wpa.json and Merge                                       *)
(***************************************************************************)
\* json.MarshalIndent of a WPANetwork: Priority and BSSID are omitempty.
MarshalWPANetwork(n) ==
  [k \in {"Disabled", "Password", "SSID", "KeyMgmt"}
         \cup (IF n.Priority # "" THEN {"Priority"} ELSE {})
         \cup (IF n.BSSID # "" THEN {"BSSID"} ELSE {}) |-> n[k]]

\* json.Unmarshal into a WPANetwork: an absent key leaves the zero value.
UnmarshalWPANetwork(o) ==
  [Disabled |-> o.Disabled, Password |-> o.Password, SSID |-> o.SSID,
   KeyMgmt  |-> o.KeyMgmt,
   Priority |-> IF "Priority" \in DOMAIN o THEN o.Priority ELSE "",
   BSSID    |-> IF "BSSID" \in DOMAIN o THEN o.BSSID ELSE ""]

MarshalWPAs(wpas) ==
  [WPAs |-> [i \in 1..Len(wpas) |->
     [Iface |-> wpas[i].Iface, Enabled |-> wpas[i].Enabled,
      Networks |-> [j \in 1..Len(wpas[i].Networks) |->
                      MarshalWPANetwork(wpas[i].Networks[j])]]]]

UnmarshalWPAs(doc) ==
  [i \in 1..Len(doc.WPAs) |->
     [Iface |-> doc.WPAs[i].Iface, Enabled |-> doc.WPAs[i].Enabled,
      Networks |-> [j \in 1..Len(doc.WPAs[i].Networks) |->
                      UnmarshalWPANetwork(doc.WPAs[i].Networks[j])]]]

\* A JSON file cut short: ioutil.WriteFile opens with O_TRUNC, so a write
\* that fails after the open leaves a file json.Unmarshal cannot parse.
TruncatedJson == [Truncated |-> TRUE]

\* What a failing ioutil.WriteFile can leave behind: the old file (the open
\* failed) or the truncated one (the write failed after the open).
FailedWrite(old, truncated) == {old, <<truncated>>}

\* The truncated daemon files: a wpa_<Iface>.conf without directive or
\* network block, a chap-secrets or provider file without lines.
TruncatedConf == [ctrl_interface |-> "", networks |-> <<>>]
TruncatedLines == <<>>

\* loadWpaConfigLocked on the file content: [WPAs, ok]; a missing file
\* (line 156) or an unparsable one (line 162) is an error and leaves the
\* empty config.
loadWpaConfigLocked(file) ==
  IF file = <<>> THEN [WPAs |-> <<>>, ok |-> FALSE]
  ELSE IF "WPAs" \notin DOMAIN file[1] THEN [WPAs |-> <<>>, ok |-> FALSE]
  ELSE [WPAs |-> UnmarshalWPAs(file[1]), ok |-> TRUE]

\* The scan of insertWpaConfigAndSave from position i: it stops at the first
\* record whose Iface is new_wpa.Iface (break), refreshing Enabled before it.
RECURSIVE ScanWPAs(_, _, _, _)
ScanWPAs(stored, i, interfaces, new_wpa) ==
  IF i > Len(stored) THEN [wpas |-> <<>>, found |-> FALSE]
  ELSE IF stored[i].Iface = new_wpa.Iface
       THEN [wpas |-> <<new_wpa>>, found |-> TRUE]
       ELSE LET rest == ScanWPAs(stored, i + 1, interfaces, new_wpa)
                wpa  == [stored[i] EXCEPT
                           !.Enabled = isWifiUplinkIfaceEnabled(stored[i].Iface, interfaces)]
            IN  [wpas |-> <<wpa>> \o rest.wpas, found |-> rest.found]

\* A scan that appends new_wpa whether or not a record matched.
MergeWPAs_AppendAlways(stored, interfaces, new_wpa) ==
  LET s == ScanWPAs(stored, 1, interfaces, new_wpa)
  IN  IF new_wpa.Iface # "" THEN Append(s.wpas, new_wpa) ELSE s.wpas

\* A scan that patches Enabled into the matched record instead of replacing it.
MergeWPAs_PatchOnly(stored, interfaces, new_wpa) ==
  LET s == ScanWPAs(stored, 1, interfaces, new_wpa)
      n == Len(s.wpas)
  IN  IF s.found
      THEN SubSeq(s.wpas, 1, n - 1) \o
           <<[stored[n] EXCEPT !.Enabled = new_wpa.Enabled]>>
      ELSE IF new_wpa.Iface # "" THEN Append(s.wpas, new_wpa) ELSE s.wpas

\* config.WPAs as insertWpaConfigAndSave computes it (lines 185-204).
MergeWPAs(stored, interfaces, new_wpa) ==
  LET s == ScanWPAs(stored, 1, interfaces, new_wpa)
  IN  IF ~s.found /\ new_wpa.Iface # "" THEN Append(s.wpas, new_wpa) ELSE s.wpas

(***************************************************************************)
(* The WPA generator                                                       *)
(***************************************************************************)
\* One network block of the wpa_supplicant template: its lines in order.
WPANetworkBlock(n) ==
  <<<<"ssid", n.SSID>>, <<"psk", n.Password>>>>
  \o (IF n.Priority # "" THEN <<<<"priority", n.Priority>>>> ELSE <<>>)
  \o (IF n.BSSID # "" THEN <<<<"bssid", n.BSSID>>>> ELSE <<>>)
  \o <<<<"key_mgmt", n.KeyMgmt>>>>

\* A template without {{if not .Disabled}}: every entry gets a block.
RECURSIVE WPANetworkBlocks_All(_, _)
WPANetworkBlocks_All(networks, j) ==
  IF j > Len(networks) THEN <<>>
  ELSE <<WPANetworkBlock(networks[j])>> \o WPANetworkBlocks_All(networks, j + 1)

\* Lines 114-124: {{range .Networks}} with {{if not .Disabled}}.
RECURSIVE WPANetworkBlocks(_, _)
WPANetworkBlocks(networks, j) ==
  IF j > Len(networks) THEN <<>>
  ELSE (IF networks[j].Disabled THEN <<>> ELSE <<WPANetworkBlock(networks[j])>>)
       \o WPANetworkBlocks(networks, j + 1)

\* The text written to wpa_<Iface>.conf for one enabled record.
RenderWPA(wpa) ==
  [ctrl_interface |-> wpa.Iface, networks |-> WPANetworkBlocks(wpa.Networks, 1)]

(***************************************************************************)
(* PPP records, the PPP store and the PPP generator                        *)
(***************************************************************************)
\* The zero value PPPIface{}.
EmptyPPPIface ==
  [Iface |-> "", Enabled |-> FALSE, Username |-> "", Secret |-> "",
   VLAN |-> "", MTU |-> ""]

\* The fields of the PPPIface struct.
PPPIfaceFields == {"Iface", "Enabled", "Username", "Secret", "VLAN", "MTU"}

\* (p *PPPIface) Validate: "" is nil, anything else the error text.
PPPIfaceValidate(p) ==
  IF p.Iface = "" THEN "Iface field empty"
  ELSE IF p.Username = "" THEN "Username field empty"
  ELSE IF ContainsNewline(p.Username) THEN "Username field contains newline characters"
  ELSE IF ContainsNewline(p.Secret) THEN "Secret field contains newline characters"
  ELSE IF p.VLAN # "" /\ ~Atoi(p.VLAN).ok THEN "VLAN field must contain numeric value"
  ELSE IF p.MTU # "" /\ (~Atoi(p.MTU).ok \/ Atoi(p.MTU).neg)
       THEN "MTU field must contain numeric positive value"
  ELSE ""

\* loadPPPConfigLocked on the file content (every field is marshalled, the
\* malformed struct tags of VLAN and MTU are ignored by encoding/json).
loadPPPConfigLocked(file) ==
  IF file = <<>> THEN [PPPs |-> <<>>, ok |-> FALSE]
  ELSE IF "PPPs" \notin DOMAIN file[1] THEN [PPPs |-> <<>>, ok |-> FALSE]
  ELSE [PPPs |-> file[1].PPPs, ok |-> TRUE]

\* The scan of insertPPPConfigAndSave from position i.
RECURSIVE ScanPPPs(_, _, _, _)
ScanPPPs(stored, i, interfaces, new_ppp) ==
  IF i > Len(stored) THEN [ppps |-> <<>>, found |-> FALSE]
  ELSE IF stored[i].Iface = new_ppp.Iface
       THEN [ppps |-> <<new_ppp>>, found |-> TRUE]
       ELSE LET rest == ScanPPPs(stored, i + 1, interfaces, new_ppp)
                ppp  == [stored[i] EXCEPT
                           !.Enabled = isPPPUplinkIfaceEnabled(stored[i].Iface, interfaces)]
            IN  [ppps |-> <<ppp>> \o rest.ppps, found |-> rest.found]

\* A scan that appends new_ppp whether or not a record matched.
MergePPPs_AppendAlways(stored, interfaces, new_ppp) ==
  LET s == ScanPPPs(stored, 1, interfaces, new_ppp)
  IN  IF new_ppp.Iface # "" THEN Append(s.ppps, new_ppp) ELSE s.ppps

\* config.PPPs as insertPPPConfigAndSave computes it (lines 464-483).
MergePPPs(stored, interfaces, new_ppp) ==
  LET s == ScanPPPs(stored, 1, interfaces, new_ppp)
  IN  IF ~s.found /\ new_ppp.Iface # "" THEN Append(s.ppps, new_ppp) ELSE s.ppps

RECURSIVE ChapSecrets_EnabledOnly(_, _)
\* A chap-secrets rendering that skips the records with Enabled = false.
ChapSecrets_EnabledOnly(ppps, i) ==
  IF i > Len(ppps) THEN <<>>
  ELSE (IF ppps[i].Enabled THEN <<<<ppps[i].Username, "*", ppps[i].Secret>>>> ELSE <<>>)
       \o ChapSecrets_EnabledOnly(ppps, i + 1)

\* The chap-secrets template over config.PPPs from position i: one line
\*   "Username" * "Secret"   per record.
RECURSIVE ChapSecrets(_, _)
ChapSecrets(ppps, i) ==
  IF i > Len(ppps) THEN <<>>
  ELSE <<<<ppps[i].Username, "*", ppps[i].Secret>>>> \o ChapSecrets(ppps, i + 1)

\* The fields the provider template evaluates on every execution, in order:
\* {{if .MTU}}, {{.Iface}}, {{if .VLAN}}, {{if .BSSID}}, {{.Iface}}, {{.VLAN}},
\* {{.Username}}.
ProviderTemplateFields == <<"MTU", "Iface", "VLAN", "BSSID", "Iface", "VLAN", "Username">>

\* tmpl.Execute(&result, ppp) for the provider template: text/template fails
\* with "can't evaluate field" on a field the struct does not have.
\* Result: [ok, text].
ExecuteProvider(ppp) ==
  IF \E i \in 1..Len(ProviderTemplateFields) :
       ProviderTemplateFields[i] \notin PPPIfaceFields
  THEN [ok |-> FALSE, text |-> <<>>]
  ELSE [ok |-> TRUE,
        text |-> (IF ppp.MTU # "" THEN <<<<"mtu", ppp.MTU>>>> ELSE <<>>)
                 \o <<<<"plugin rp-pppoe.so", ppp.Iface, ppp.VLAN>>,
                      <<"plugin rp-pppoe.so", ppp.Iface, ppp.VLAN>>,
                      <<"user", ppp.Username>>>>]

(***************************************************************************)
(* Interface registry and plugin manager (collaborators)                   *)
(***************************************************************************)
\* updateInterfaceType(Iface, Type, Subtype, Enabled) on the registry list:
\* the entry of that name is updated in place, or a new entry is appended.
UpsertInterface(list, Name, Type, Subtype, Enabled) ==
  LET e == [Name |-> Name, Type |-> Type, Subtype |-> Subtype, Enabled |-> Enabled]
  IN  IF \E i \in 1..Len(list) : list[i].Name = Name
      THEN [i \in 1..Len(list) |-> IF list[i].Name = Name THEN e ELSE list[i]]
      ELSE Append(list, e)

(***************************************************************************)
(* Requests the model submits                                              *)
(***************************************************************************)
Home ==
  [Disabled |-> FALSE, Password |-> "secret123", SSID |-> "Home",
   KeyMgmt |-> DefaultKeyMgmt, Priority |-> "", BSSID |-> ""]

HomeOff == [Home EXCEPT !.Disabled = TRUE, !.Priority = "10"]

Injected == [Home EXCEPT !.SSID = "Ho\nme"]

NetworkLists == {<<Home>>, <<HomeOff>>, <<Home, Injected>>}

WifiIfaceNames == {"wlan1", "wlan2"}

\* Every record over the sample names and network lists, the zero record
\* (empty Iface) and one record whose Iface does not match the name pattern.
WifiRequests ==
  [Iface : WifiIfaceNames, Enabled : BOOLEAN, Networks : NetworkLists]
  \cup {EmptyWPAIface, [EmptyWPAIface EXCEPT !.Iface = "wl/1"]}

PPPIfaceNames == {"wlan1", "wlan2", ""}

PPPCredentials ==
  {[Username |-> "alice", Secret |-> "pw", VLAN |-> "", MTU |-> ""],
   [Username |-> "bob", Secret |-> "pw2", VLAN |-> "10", MTU |-> "1492"],
   [Username |-> "alice", Secret |-> "pw", VLAN |-> "abc", MTU |-> ""],
   [Username |-> "bob", Secret |-> "pw2", VLAN |-> "", MTU |-> "-1"]}

PPPRequests ==
  {[Iface |-> n, Enabled |-> e, Username |-> c.Username, Secret |-> c.Secret,
    VLAN |-> c.VLAN, MTU |-> c.MTU] :
     n \in PPPIfaceNames, e \in BOOLEAN, c \in PPPCredentials}

\* The interfaces that can own a daemon file.
FileIfaces == {"wlan1", "wlan2"}

\* The request workers; Sequential are those of the one-request-at-a-time runs.
Procs == {1, 2}

Sequential == {1}

(***************************************************************************)
(* State                                                                   *)
(***************************************************************************)
VARIABLES
  uplink,       \* the uplink technology whose handler this run exercises
  registry,     \* the interface registry's list of InterfaceConfig
  plugins,      \* plugin manager: plugin name -> enabled and running
  wpaJson,      \* the file WpaConfigPath
  wpaConf,      \* the files wpa_<Iface>.conf
  WPAmtx,       \* 0 when free, else the worker holding it
  pppJson,      \* the file PPPConfigPath
  chapSecrets,  \* the file /etc/ppp/chap-secrets
  provider,     \* the files /etc/ppp/provider_<Iface>
  PPPmtx,       \* 0 when free, else the worker holding it
  pc,           \* where each worker is in its handler
  wpa,          \* updateWpaSupplicantConfig: the decoded record
  ppp,          \* updatePPPConfig: the decoded record
  enabled,      \* updateWpaSupplicantConfig: enabled
  interfaces,   \* the list returned by updateInterfaceType
  config,       \* insert*ConfigAndSave: config.WPAs / config.PPPs
  idx,          \* write*: position of the range loop
  err,          \* insert*ConfigAndSave: the error being returned ("" is nil)
  response,     \* what the handler answered: [code, body]
  calls         \* the plugin manager calls the handler made

shared == <<uplink, registry, plugins, wpaJson, wpaConf, WPAmtx,
            pppJson, chapSecrets, provider, PPPmtx>>

vars == <<uplink, registry, plugins, wpaJson, wpaConf, WPAmtx,
          pppJson, chapSecrets, provider, PPPmtx,
          pc, wpa, ppp, enabled, interfaces, config, idx, err, response, calls>>

NoResponse == [code |-> 0, body |-> ""]

\* The two stores share no file, lock or plugin, only the registry, so a run
\* exercises the handler of one technology, chosen at the start.
Init ==
  /\ uplink \in {"wifi", "ppp"}
  /\ registry = <<[Name |-> "wlan1", Type |-> "Other", Subtype |-> "", Enabled |-> FALSE],
                  [Name |-> "wlan2", Type |-> "Other", Subtype |-> "", Enabled |-> FALSE]>>
  /\ plugins = [n \in {"WIFI-UPLINK", "PPP"} |-> FALSE]
  /\ wpaJson = <<>>
  /\ wpaConf = [n \in FileIfaces |-> <<>>]
  /\ WPAmtx = 0
  /\ pppJson = <<>>
  /\ chapSecrets = <<>>
  /\ provider = [n \in FileIfaces |-> <<>>]
  /\ PPPmtx = 0
  /\ pc = [p \in Procs |-> "idle"]
  /\ wpa = [p \in Procs |-> EmptyWPAIface]
  /\ ppp = [p \in Procs |-> EmptyPPPIface]
  /\ enabled = [p \in Procs |-> FALSE]
  /\ interfaces = [p \in Procs |-> <<>>]
  /\ config = [p \in Procs |-> <<>>]
  /\ idx = [p \in Procs |-> 0]
  /\ err = [p \in Procs |-> ""]
  /\ response = [p \in Procs |-> NoResponse]
  /\ calls = [p \in Procs |-> <<>>]

\* A worker takes a new request: the handler's locals start from zero values.
Begin(p, at, w, q) ==
  /\ pc[p] \in {"idle", "done"}
  /\ pc' = [pc EXCEPT ![p] = at]
  /\ wpa' = [wpa EXCEPT ![p] = w]
  /\ ppp' = [ppp EXCEPT ![p] = q]
  /\ enabled' = [enabled EXCEPT ![p] = FALSE]
  /\ interfaces' = [interfaces EXCEPT ![p] = <<>>]
  /\ config' = [config EXCEPT ![p] = <<>>]
  /\ idx' = [idx EXCEPT ![p] = 0]
  /\ err' = [err EXCEPT ![p] = ""]
  /\ response' = [response EXCEPT ![p] = NoResponse]
  /\ calls' = [calls EXCEPT ![p] = <<>>]
  /\ UNCHANGED shared

\* http.Error(w, body, 400); return
Reply400(p, body) ==
  /\ response' = [response EXCEPT ![p] = [code |-> 400, body |-> body]]
  /\ pc' = [pc EXCEPT ![p] = "done"]

(***************************************************************************)
(* updateWpaSupplicantConfig                                               *)
(***************************************************************************)
\* Lines 226-232: the body decodes into wpa.
SubmitWifi(p) ==
  /\ uplink = "wifi"
  /\ \E w \in WifiRequests : Begin(p, "wifi_validate", w, EmptyPPPIface)

\* A handler that records the interface type before it validates.
ValidateWifi_RegisterFirst(p) ==
  /\ pc[p] = "wifi_validate"
  /\ LET nameOK == MatchIfaceName(wpa[p].Iface)
         verr   == ValidateNetworks(wpa[p].Networks, 1)
     IN  /\ registry' = UpsertInterface(registry, wpa[p].Iface, "Uplink", "wifi",
                                        wpa[p].Enabled)
         /\ IF ~nameOK THEN
              /\ Reply400(p, "Invalid iface name")
              /\ UNCHANGED enabled
            ELSE IF verr # "" THEN
              /\ Reply400(p, "Failed to validate network")
              /\ UNCHANGED enabled
            ELSE
              /\ enabled' = [enabled EXCEPT ![p] = AnyNetworkEnabled(wpa[p].Networks)]
              /\ pc' = [pc EXCEPT ![p] = "wifi_register"]
              /\ UNCHANGED response
  /\ UNCHANGED <<uplink, plugins, wpaJson, wpaConf, WPAmtx, pppJson, chapSecrets,
                 provider, PPPmtx>>
  /\ UNCHANGED <<wpa, ppp, interfaces, config, idx, err, calls>>

\* Lines 234-262: the iface name pattern, then the loop over wpa.Networks.
ValidateWifi(p) ==
  /\ pc[p] = "wifi_validate"
  /\ LET nameOK == MatchIfaceName(wpa[p].Iface)
         verr   == ValidateNetworks(wpa[p].Networks, 1)
     IN  IF ~nameOK THEN
           /\ Reply400(p, "Invalid iface name")
           /\ UNCHANGED enabled
         ELSE IF verr # "" THEN
           /\ Reply400(p, "Failed to validate network")
           /\ UNCHANGED enabled
         ELSE
           /\ enabled' = [enabled EXCEPT ![p] = AnyNetworkEnabled(wpa[p].Networks)]
           /\ pc' = [pc EXCEPT ![p] = "wifi_register"]
           /\ UNCHANGED response
  /\ UNCHANGED shared
  /\ UNCHANGED <<wpa, ppp, interfaces, config, idx, err, calls>>

\* A handler that goes on to the store when the registry call failed.
RegisterWifi_IgnoreError(p) ==
  /\ pc[p] = "wifi_register"
  /\ \E ok \in BOOLEAN :
       /\ IF ok
          THEN registry' = UpsertInterface(registry, wpa[p].Iface, "Uplink", "wifi",
                                           wpa[p].Enabled)
          ELSE UNCHANGED registry
       /\ interfaces' = [interfaces EXCEPT ![p] = registry']
       /\ err' = [err EXCEPT ![p] = IF ok THEN "" ELSE "registry error"]
       /\ pc' = [pc EXCEPT ![p] = "wifi_lock"]
       /\ UNCHANGED response
  /\ UNCHANGED <<uplink, plugins, wpaJson, wpaConf, WPAmtx, pppJson, chapSecrets,
                 provider, PPPmtx>>
  /\ UNCHANGED <<wpa, ppp, enabled, config, idx, calls>>

\* Lines 264-270: updateInterfaceType(wpa.Iface, "Uplink", "wifi", wpa.Enabled)
\* returns the registry's list, or fails and leaves the registry as it was.
RegisterWifi(p) ==
  /\ pc[p] = "wifi_register"
  /\ \E ok \in BOOLEAN :
       IF ok THEN
         /\ registry' = UpsertInterface(registry, wpa[p].Iface, "Uplink", "wifi",
                                        wpa[p].Enabled)
         /\ interfaces' = [interfaces EXCEPT ![p] = registry']
         /\ pc' = [pc EXCEPT ![p] = "wifi_lock"]
         /\ UNCHANGED <<response, err>>
       ELSE
         /\ Reply400(p, "registry error")
         /\ err' = [err EXCEPT ![p] = "registry error"]
         /\ UNCHANGED <<uplink, registry, interfaces>>
  /\ UNCHANGED <<uplink, plugins, wpaJson, wpaConf, WPAmtx, pppJson, chapSecrets,
                 provider, PPPmtx>>
  /\ UNCHANGED <<wpa, ppp, enabled, config, idx, calls>>

\* A lock that does not wait for its holder.
LockWifi_NoWait(p) ==
  /\ pc[p] = "wifi_lock"
  /\ WPAmtx' = p
  /\ pc' = [pc EXCEPT ![p] = "wifi_merge"]
  /\ UNCHANGED <<uplink, registry, plugins, wpaJson, wpaConf, pppJson, chapSecrets,
                 provider, PPPmtx>>
  /\ UNCHANGED <<wpa, ppp, enabled, interfaces, config, idx, err, response, calls>>

\* Line 175: WPAmtx.Lock()
LockWifi(p) ==
  /\ pc[p] = "wifi_lock"
  /\ WPAmtx = 0
  /\ WPAmtx' = p
  /\ pc' = [pc EXCEPT ![p] = "wifi_merge"]
  /\ UNCHANGED <<uplink, registry, plugins, wpaJson, wpaConf, pppJson, chapSecrets,
                 provider, PPPmtx>>
  /\ UNCHANGED <<wpa, ppp, enabled, interfaces, config, idx, err, response, calls>>

\* A Merge that returns the error of the load.
MergeWifi_LoadFatal(p) ==
  /\ pc[p] = "wifi_merge"
  /\ LET loaded == loadWpaConfigLocked(wpaJson)
         wpas   == MergeWPAs(loaded.WPAs, interfaces[p], wpa[p])
     IN  IF ~loaded.ok THEN
           /\ err' = [err EXCEPT ![p] = "load error"]
           /\ pc' = [pc EXCEPT ![p] = "wifi_unlock"]
           /\ UNCHANGED <<wpaJson, idx, config>>
         ELSE
           /\ config' = [config EXCEPT ![p] = wpas]
           /\ \E ok \in BOOLEAN :
                IF ok THEN
                  /\ wpaJson' = <<MarshalWPAs(wpas)>>
                  /\ idx' = [idx EXCEPT ![p] = 1]
                  /\ pc' = [pc EXCEPT ![p] = "wifi_render"]
                  /\ UNCHANGED err
                ELSE
                  /\ err' = [err EXCEPT ![p] = "write error"]
                  /\ pc' = [pc EXCEPT ![p] = "wifi_unlock"]
                  /\ wpaJson' \in FailedWrite(wpaJson, TruncatedJson)
                  /\ UNCHANGED idx
  /\ UNCHANGED <<uplink, registry, plugins, wpaConf, WPAmtx, pppJson, chapSecrets,
                 provider, PPPmtx>>
  /\ UNCHANGED <<wpa, ppp, enabled, interfaces, response, calls>>

\* Lines 178-211: load, scan, marshal, write wpa.json (the write can fail).
MergeWifi(p) ==
  /\ pc[p] = "wifi_merge"
  /\ LET loaded == loadWpaConfigLocked(wpaJson)
         wpas   == MergeWPAs(loaded.WPAs, interfaces[p], wpa[p])
     IN  /\ config' = [config EXCEPT ![p] = wpas]
         /\ \E ok \in BOOLEAN :
              IF ok THEN
                /\ wpaJson' = <<MarshalWPAs(wpas)>>
                /\ idx' = [idx EXCEPT ![p] = 1]
                /\ pc' = [pc EXCEPT ![p] = "wifi_render"]
                /\ UNCHANGED err
              ELSE
                /\ err' = [err EXCEPT ![p] = "write error"]
                /\ pc' = [pc EXCEPT ![p] = "wifi_unlock"]
                /\ wpaJson' \in FailedWrite(wpaJson, TruncatedJson)
                /\ UNCHANGED idx
  /\ UNCHANGED <<uplink, registry, plugins, wpaConf, WPAmtx, pppJson, chapSecrets,
                 provider, PPPmtx>>
  /\ UNCHANGED <<wpa, ppp, enabled, interfaces, response, calls>>

\* A loop that notes a failed write and goes on with the next record.
RenderWifi_KeepGoing(p) ==
  /\ pc[p] = "wifi_render"
  /\ LET i == idx[p] IN
       IF i > Len(config[p]) THEN
         /\ pc' = [pc EXCEPT ![p] = "wifi_unlock"]
         /\ UNCHANGED <<wpaConf, idx, err>>
       ELSE IF ~config[p][i].Enabled THEN
         /\ idx' = [idx EXCEPT ![p] = i + 1]
         /\ UNCHANGED <<wpaConf, pc, err>>
       ELSE
         \E ok \in BOOLEAN :
           IF ok THEN
             /\ wpaConf' = [wpaConf EXCEPT ![config[p][i].Iface] =
                              <<RenderWPA(config[p][i])>>]
             /\ idx' = [idx EXCEPT ![p] = i + 1]
             /\ UNCHANGED <<pc, err>>
           ELSE
             /\ err' = [err EXCEPT ![p] = "write error"]
             /\ idx' = [idx EXCEPT ![p] = i + 1]
             /\ UNCHANGED <<wpaConf, pc>>
  /\ UNCHANGED <<uplink, registry, plugins, wpaJson, WPAmtx, pppJson, chapSecrets,
                 provider, PPPmtx>>
  /\ UNCHANGED <<wpa, ppp, enabled, interfaces, config, response, calls>>

\* Lines 104-144: one iteration of the loop of writeWPAs (the write can fail).
RenderWifi(p) ==
  /\ pc[p] = "wifi_render"
  /\ LET i == idx[p] IN
       IF i > Len(config[p]) THEN
         /\ pc' = [pc EXCEPT ![p] = "wifi_unlock"]
         /\ UNCHANGED <<wpaConf, idx, err>>
       ELSE IF ~config[p][i].Enabled THEN
         /\ idx' = [idx EXCEPT ![p] = i + 1]
         /\ UNCHANGED <<wpaConf, pc, err>>
       ELSE
         \E ok \in BOOLEAN :
           IF ok THEN
             /\ wpaConf' = [wpaConf EXCEPT ![config[p][i].Iface] =
                              <<RenderWPA(config[p][i])>>]
             /\ idx' = [idx EXCEPT ![p] = i + 1]
             /\ UNCHANGED <<pc, err>>
           ELSE
             /\ err' = [err EXCEPT ![p] = "write error"]
             /\ pc' = [pc EXCEPT ![p] = "wifi_unlock"]
             /\ \E left \in FailedWrite(wpaConf[config[p][i].Iface], TruncatedConf) :
                  wpaConf' = [wpaConf EXCEPT ![config[p][i].Iface] = left]
             /\ UNCHANGED idx
  /\ UNCHANGED <<uplink, registry, plugins, wpaJson, WPAmtx, pppJson, chapSecrets,
                 provider, PPPmtx>>
  /\ UNCHANGED <<wpa, ppp, enabled, interfaces, config, response, calls>>

\* An unlock written at the end of the function instead of deferred: the
\* error returns leave without it.
UnlockWifi_NotDeferred(p) ==
  /\ pc[p] = "wifi_unlock"
  /\ IF err[p] # ""
     THEN /\ Reply400(p, err[p])
          /\ UNCHANGED WPAmtx
     ELSE /\ pc' = [pc EXCEPT ![p] = "wifi_plugin"]
          /\ WPAmtx' = 0
          /\ UNCHANGED response
  /\ UNCHANGED <<uplink, registry, plugins, wpaJson, wpaConf, pppJson, chapSecrets,
                 provider, PPPmtx>>
  /\ UNCHANGED <<wpa, ppp, enabled, interfaces, config, idx, err, calls>>

\* Line 176 (deferred unlock) and lines 272-277: insertWpaConfigAndSave returns.
UnlockWifi(p) ==
  /\ pc[p] = "wifi_unlock"
  /\ WPAmtx' = 0
  /\ IF err[p] # ""
     THEN Reply400(p, err[p])
     ELSE /\ pc' = [pc EXCEPT ![p] = "wifi_plugin"]
          /\ UNCHANGED response
  /\ UNCHANGED <<uplink, registry, plugins, wpaJson, wpaConf, pppJson, chapSecrets,
                 provider, PPPmtx>>
  /\ UNCHANGED <<wpa, ppp, enabled, interfaces, config, idx, err, calls>>

\* A handler that restarts the plugin whatever enablePlugin answered.
PluginWifi_AlwaysRestart(p) ==
  /\ pc[p] = "wifi_plugin"
  /\ calls' = [calls EXCEPT ![p] =
                 (IF enabled[p] THEN <<"enablePlugin">> ELSE <<>>) \o <<"restartPlugin">>]
  /\ plugins' = [plugins EXCEPT !["WIFI-UPLINK"] = @ \/ enabled[p]]
  /\ response' = [response EXCEPT ![p] = [code |-> 200, body |-> ""]]
  /\ pc' = [pc EXCEPT ![p] = "done"]
  /\ UNCHANGED <<uplink, registry, wpaJson, wpaConf, WPAmtx, pppJson, chapSecrets,
                 provider, PPPmtx>>
  /\ UNCHANGED <<wpa, ppp, enabled, interfaces, config, idx, err>>

\* Lines 279-291: enablePlugin when a network is on, restartPlugin when that
\* did not start the plugin.  enablePlugin answers true on a fresh start.
PluginWifi(p) ==
  /\ pc[p] = "wifi_plugin"
  /\ LET started == enabled[p] /\ ~plugins["WIFI-UPLINK"] IN
       /\ calls' = [calls EXCEPT ![p] =
                      (IF enabled[p] THEN <<"enablePlugin">> ELSE <<>>)
                      \o (IF ~started THEN <<"restartPlugin">> ELSE <<>>)]
       /\ plugins' = [plugins EXCEPT !["WIFI-UPLINK"] = @ \/ enabled[p]]
  /\ response' = [response EXCEPT ![p] = [code |-> 200, body |-> ""]]
  /\ pc' = [pc EXCEPT ![p] = "done"]
  /\ UNCHANGED <<uplink, registry, wpaJson, wpaConf, WPAmtx, pppJson, chapSecrets,
                 provider, PPPmtx>>
  /\ UNCHANGED <<wpa, ppp, enabled, interfaces, config, idx, err>>

(***************************************************************************)
(* updatePPPConfig                                                         *)
(***************************************************************************)
\* Lines 505-511: the body decodes into ppp.
SubmitPPP(p) ==
  /\ uplink = "ppp"
  /\ \E q \in PPPRequests : Begin(p, "ppp_validate", EmptyWPAIface, q)

\* Lines 513-518: ppp.Validate()
ValidatePPP(p) ==
  /\ pc[p] = "ppp_validate"
  /\ IF PPPIfaceValidate(ppp[p]) # ""
     THEN Reply400(p, "Failed to validate ppp")
     ELSE /\ pc' = [pc EXCEPT ![p] = "ppp_register"]
          /\ UNCHANGED response
  /\ UNCHANGED shared
  /\ UNCHANGED <<wpa, ppp, enabled, interfaces, config, idx, err, calls>>

\* Lines 520-526: updateInterfaceType(ppp.Iface, "Uplink", "ppp", ppp.Enabled)
RegisterPPP(p) ==
  /\ pc[p] = "ppp_register"
  /\ \E ok \in BOOLEAN :
       IF ok THEN
         /\ registry' = UpsertInterface(registry, ppp[p].Iface, "Uplink", "ppp",
                                        ppp[p].Enabled)
         /\ interfaces' = [interfaces EXCEPT ![p] = registry']
         /\ pc' = [pc EXCEPT ![p] = "ppp_lock"]
         /\ UNCHANGED <<response, err>>
       ELSE
         /\ Reply400(p, "registry error")
         /\ err' = [err EXCEPT ![p] = "registry error"]
         /\ UNCHANGED <<uplink, registry, interfaces>>
  /\ UNCHANGED <<uplink, plugins, wpaJson, wpaConf, WPAmtx, pppJson, chapSecrets,
                 provider, PPPmtx>>
  /\ UNCHANGED <<wpa, ppp, enabled, config, idx, calls>>

\* Line 454: PPPmtx.Lock()
LockPPP(p) ==
  /\ pc[p] = "ppp_lock"
  /\ PPPmtx = 0
  /\ PPPmtx' = p
  /\ pc' = [pc EXCEPT ![p] = "ppp_merge"]
  /\ UNCHANGED <<uplink, registry, plugins, wpaJson, wpaConf, WPAmtx, pppJson,
                 chapSecrets, provider>>
  /\ UNCHANGED <<wpa, ppp, enabled, interfaces, config, idx, err, response, calls>>

\* Lines 457-490: load, scan, marshal, write ppp.json (the write can fail).
MergePPP(p) ==
  /\ pc[p] = "ppp_merge"
  /\ LET loaded == loadPPPConfigLocked(pppJson)
         ppps   == MergePPPs(loaded.PPPs, interfaces[p], ppp[p])
     IN  /\ config' = [config EXCEPT ![p] = ppps]
         /\ \E ok \in BOOLEAN :
              IF ok THEN
                /\ pppJson' = <<[PPPs |-> ppps]>>
                /\ pc' = [pc EXCEPT ![p] = "ppp_secrets"]
                /\ UNCHANGED err
              ELSE
                /\ err' = [err EXCEPT ![p] = "write error"]
                /\ pc' = [pc EXCEPT ![p] = "ppp_unlock"]
                /\ pppJson' \in FailedWrite(pppJson, TruncatedJson)
  /\ UNCHANGED <<uplink, registry, plugins, wpaJson, wpaConf, WPAmtx, chapSecrets,
                 provider, PPPmtx>>
  /\ UNCHANGED <<wpa, ppp, enabled, interfaces, idx, response, calls>>

\* Lines 377-401: render and write chap-secrets (the write can fail).
SecretsPPP(p) ==
  /\ pc[p] = "ppp_secrets"
  /\ \E ok \in BOOLEAN :
       IF ok THEN
         /\ chapSecrets' = <<ChapSecrets(config[p], 1)>>
         /\ idx' = [idx EXCEPT ![p] = 1]
         /\ pc' = [pc EXCEPT ![p] = "ppp_provider"]
         /\ UNCHANGED err
       ELSE
         /\ err' = [err EXCEPT ![p] = "write error"]
         /\ pc' = [pc EXCEPT ![p] = "ppp_unlock"]
         /\ chapSecrets' \in FailedWrite(chapSecrets, TruncatedLines)
         /\ UNCHANGED idx
  /\ UNCHANGED <<uplink, registry, plugins, wpaJson, wpaConf, WPAmtx, pppJson,
                 provider, PPPmtx>>
  /\ UNCHANGED <<wpa, ppp, enabled, interfaces, config, response, calls>>

\* Lines 403-438: one iteration of the provider loop of writePPP.
ProviderPPP(p) ==
  /\ pc[p] = "ppp_provider"
  /\ LET i == idx[p] IN
       IF i > Len(config[p]) THEN
         /\ pc' = [pc EXCEPT ![p] = "ppp_unlock"]
         /\ UNCHANGED <<provider, idx, err>>
       ELSE IF ~ExecuteProvider(config[p][i]).ok THEN
         /\ err' = [err EXCEPT ![p] = "template: can't evaluate field"]
         /\ pc' = [pc EXCEPT ![p] = "ppp_unlock"]
         /\ UNCHANGED <<provider, idx>>
       ELSE
         \E ok \in BOOLEAN :
           IF ok THEN
             /\ provider' = [provider EXCEPT ![config[p][i].Iface] =
                               <<ExecuteProvider(config[p][i]).text>>]
             /\ idx' = [idx EXCEPT ![p] = i + 1]
             /\ UNCHANGED <<pc, err>>
           ELSE
             /\ err' = [err EXCEPT ![p] = "write error"]
             /\ pc' = [pc EXCEPT ![p] = "ppp_unlock"]
             /\ \E left \in FailedWrite(provider[config[p][i].Iface], TruncatedLines) :
                  provider' = [provider EXCEPT ![config[p][i].Iface] = left]
             /\ UNCHANGED idx
  /\ UNCHANGED <<uplink, registry, plugins, wpaJson, wpaConf, WPAmtx, pppJson,
                 chapSecrets, PPPmtx>>
  /\ UNCHANGED <<wpa, ppp, enabled, interfaces, config, response, calls>>

\* Line 455 (deferred unlock) and lines 528-539: insertPPPConfigAndSave
\* returns; on an error the handler answers 400, otherwise it calls
\* enablePlugin, and restartPlugin when that did not start the plugin.
ReturnPPP(p) ==
  /\ pc[p] = "ppp_unlock"
  /\ PPPmtx' = 0
  /\ IF err[p] # "" THEN
       /\ Reply400(p, err[p])
       /\ UNCHANGED <<plugins, calls>>
     ELSE
       /\ LET started == ~plugins["PPP"] IN
            calls' = [calls EXCEPT ![p] =
                        <<"enablePlugin">>
                        \o (IF ~started THEN <<"restartPlugin">> ELSE <<>>)]
       /\ plugins' = [plugins EXCEPT !["PPP"] = TRUE]
       /\ response' = [response EXCEPT ![p] = [code |-> 200, body |-> ""]]
       /\ pc' = [pc EXCEPT ![p] = "done"]
  /\ UNCHANGED <<uplink, registry, wpaJson, wpaConf, WPAmtx, pppJson,
                 chapSecrets, provider>>
  /\ UNCHANGED <<wpa, ppp, enabled, interfaces, config, idx, err>>

(***************************************************************************)
(* Specification: requests are served one at a time by one worker          *)
(***************************************************************************)
Next ==
  \/ \E p \in Sequential : SubmitWifi(p)
  \/ \E p \in Sequential : ValidateWifi(p)
  \/ \E p \in Sequential : RegisterWifi(p)
  \/ \E p \in Sequential : LockWifi(p)
  \/ \E p \in Sequential : MergeWifi(p)
  \/ \E p \in Sequential : RenderWifi(p)
  \/ \E p \in Sequential : UnlockWifi(p)
  \/ \E p \in Sequential : PluginWifi(p)
  \/ \E p \in Sequential : SubmitPPP(p)
  \/ \E p \in Sequential : ValidatePPP(p)
  \/ \E p \in Sequential : RegisterPPP(p)
  \/ \E p \in Sequential : LockPPP(p)
  \/ \E p \in Sequential : MergePPP(p)
  \/ \E p \in Sequential : SecretsPPP(p)
  \/ \E p \in Sequential : ProviderPPP(p)
  \/ \E p \in Sequential : ReturnPPP(p)

Spec == Init /\ [][Next]_vars

(***************************************************************************)
(* Specification: the validation stage of updateWpaSupplicantConfig on     *)
(* every key_mgmt string                                                   *)
(***************************************************************************)
\* One network per body; its other fields pass validation.
KeyMgmtNetworks ==
  {[Home EXCEPT !.KeyMgmt = k, !.Priority = pr, !.Disabled = d] :
     k \in KeyMgmtStrings, pr \in {"", "10"}, d \in BOOLEAN}

KeyMgmtRequests == [Iface : {"wlan1"}, Enabled : {TRUE}, Networks : {<<n>> : n \in KeyMgmtNetworks}]

SubmitWifiKeyMgmt(p) ==
  /\ uplink = "wifi"
  /\ \E w \in KeyMgmtRequests : Begin(p, "wifi_validate", w, EmptyPPPIface)

NextValidate ==
  \/ \E p \in Sequential : SubmitWifiKeyMgmt(p)
  \/ \E p \in Sequential : ValidateWifi(p)

SpecValidate == Init /\ [][NextValidate]_vars

(***************************************************************************)
(* Specification: one worker serves bodies whose text fields are empty,    *)
(* hold a newline or are otherwise malformed                               *)
(***************************************************************************)
NoKey == [Home EXCEPT !.KeyMgmt = ""]

InjectedPassword == [Home EXCEPT !.Password = "se\ncret"]

FieldNetworkLists ==
  {<<Home>>, <<NoKey>>, <<[Home EXCEPT !.KeyMgmt = "SAE"]>>, <<Home, NoKey>>,
   <<Injected>>, <<InjectedPassword>>, <<Home, InjectedPassword>>,
   <<[Injected EXCEPT !.KeyMgmt = "WEP", !.Priority = "abc"]>>,
   <<[InjectedPassword EXCEPT !.KeyMgmt = "", !.Priority = "abc"]>>}

FieldWifiRequests == [Iface : {"wlan1"}, Enabled : BOOLEAN, Networks : FieldNetworkLists]

FieldPPPCredentials ==
  {[Username |-> "alice", Secret |-> "pw", VLAN |-> "", MTU |-> ""],
   [Username |-> "al\nice", Secret |-> "pw", VLAN |-> "", MTU |-> ""],
   [Username |-> "alice", Secret |-> "p\nw", VLAN |-> "", MTU |-> ""],
   [Username |-> "al\nice", Secret |-> "p\nw", VLAN |-> "10", MTU |-> "1492"],
   [Username |-> "al\nice", Secret |-> "pw", VLAN |-> "abc", MTU |-> ""],
   [Username |-> "alice", Secret |-> "p\nw", VLAN |-> "", MTU |-> "-1"]}

FieldPPPRequests ==
  {[Iface |-> n, Enabled |-> TRUE, Username |-> c.Username, Secret |-> c.Secret,
    VLAN |-> c.VLAN, MTU |-> c.MTU] :
     n \in {"wlan1", ""}, c \in FieldPPPCredentials}

SubmitWifiFields(p) ==
  /\ uplink = "wifi"
  /\ \E w \in FieldWifiRequests : Begin(p, "wifi_validate", w, EmptyPPPIface)

SubmitPPPFields(p) ==
  /\ uplink = "ppp"
  /\ \E q \in FieldPPPRequests : Begin(p, "ppp_validate", EmptyWPAIface, q)

NextFields ==
  \/ \E p \in Sequential : SubmitWifiFields(p)
  \/ \E p \in Sequential : ValidateWifi(p)
  \/ \E p \in Sequential : RegisterWifi(p)
  \/ \E p \in Sequential : LockWifi(p)
  \/ \E p \in Sequential : MergeWifi(p)
  \/ \E p \in Sequential : RenderWifi(p)
  \/ \E p \in Sequential : UnlockWifi(p)
  \/ \E p \in Sequential : PluginWifi(p)
  \/ \E p \in Sequential : SubmitPPPFields(p)
  \/ \E p \in Sequential : ValidatePPP(p)
  \/ \E p \in Sequential : RegisterPPP(p)
  \/ \E p \in Sequential : LockPPP(p)
  \/ \E p \in Sequential : MergePPP(p)
  \/ \E p \in Sequential : SecretsPPP(p)
  \/ \E p \in Sequential : ProviderPPP(p)
  \/ \E p \in Sequential : ReturnPPP(p)

SpecFields == Init /\ [][NextFields]_vars

(***************************************************************************)
(* Requests with one valid payload per interface and flag                  *)
(***************************************************************************)
\* The bodies these clients send: either interface, on or off, one network.
ConcWifiRequests == [Iface : WifiIfaceNames, Enabled : BOOLEAN, Networks : {<<Home>>}]

ConcPPPRequests ==
  {[EmptyPPPIface EXCEPT !.Iface = i, !.Enabled = e, !.Username = "alice", !.Secret = "pw"] :
     i \in WifiIfaceNames, e \in BOOLEAN}

SubmitWifiConc(p) ==
  /\ uplink = "wifi"
  /\ \E w \in ConcWifiRequests : Begin(p, "wifi_validate", w, EmptyPPPIface)

SubmitPPPConc(p) ==
  /\ uplink = "ppp"
  /\ \E q \in ConcPPPRequests : Begin(p, "ppp_validate", EmptyWPAIface, q)

(***************************************************************************)
(* Specification: one worker serves updates of one technology while the    *)
(* update handler of the other technology sets interface types             *)
(***************************************************************************)
\* Line 520 during WPA updates, line 264 during PPP updates: the other
\* handler's updateInterfaceType(name, "Uplink", subtype, true) makes the
\* interface an enabled uplink of its own technology.
RetypeInterface(name) ==
  /\ registry' = UpsertInterface(registry, name, "Uplink",
                                 IF uplink = "wifi" THEN "ppp" ELSE "wifi", TRUE)
  /\ UNCHANGED <<uplink, plugins, wpaJson, wpaConf, WPAmtx, pppJson, chapSecrets,
                 provider, PPPmtx>>
  /\ UNCHANGED <<pc, wpa, ppp, enabled, interfaces, config, idx, err, response, calls>>

NextRegistry ==
  \/ \E p \in Sequential : SubmitWifiConc(p)
  \/ \E p \in Sequential : ValidateWifi(p)
  \/ \E p \in Sequential : RegisterWifi(p)
  \/ \E p \in Sequential : LockWifi(p)
  \/ \E p \in Sequential : MergeWifi(p)
  \/ \E p \in Sequential : RenderWifi(p)
  \/ \E p \in Sequential : UnlockWifi(p)
  \/ \E p \in Sequential : PluginWifi(p)
  \/ \E p \in Sequential : SubmitPPPConc(p)
  \/ \E p \in Sequential : ValidatePPP(p)
  \/ \E p \in Sequential : RegisterPPP(p)
  \/ \E p \in Sequential : LockPPP(p)
  \/ \E p \in Sequential : MergePPP(p)
  \/ \E p \in Sequential : SecretsPPP(p)
  \/ \E p \in Sequential : ProviderPPP(p)
  \/ \E p \in Sequential : ReturnPPP(p)
  \/ \E name \in WifiIfaceNames : RetypeInterface(name)

SpecRegistry == Init /\ [][NextRegistry]_vars

(***************************************************************************)
(* Specification: one worker serves WPA updates whose networks are on or   *)
(* off, with and without priority and BSSID                                *)
(***************************************************************************)
Pinned == [Home EXCEPT !.Priority = "10", !.BSSID = "aa:bb:cc:00:11:22"]

Preferred == [Home EXCEPT !.Priority = "-1", !.KeyMgmt = "SAE"]

RenderNetworkLists ==
  {<<Home>>, <<HomeOff>>, <<Pinned>>, <<HomeOff, Pinned>>, <<Preferred, Home>>,
   <<Pinned, HomeOff, Home>>}

RenderRequests ==
  [Iface : {"wlan1"}, Enabled : BOOLEAN, Networks : RenderNetworkLists]
  \cup [Iface : {"wlan2"}, Enabled : {TRUE}, Networks : {<<HomeOff, Pinned>>}]

SubmitWifiRender(p) ==
  /\ uplink = "wifi"
  /\ \E w \in RenderRequests : Begin(p, "wifi_validate", w, EmptyPPPIface)

NextRender ==
  \/ \E p \in Sequential : SubmitWifiRender(p)
  \/ \E p \in Sequential : ValidateWifi(p)
  \/ \E p \in Sequential : RegisterWifi(p)
  \/ \E p \in Sequential : LockWifi(p)
  \/ \E p \in Sequential : MergeWifi(p)
  \/ \E p \in Sequential : RenderWifi(p)
  \/ \E p \in Sequential : UnlockWifi(p)
  \/ \E p \in Sequential : PluginWifi(p)

SpecRender == Init /\ [][NextRender]_vars

(***************************************************************************)
(* getWpaSupplicantConfig and getPPPConfig                                 *)
(***************************************************************************)
\* Lines 216-217: a read request for the WPA collection arrives.
GetWifi(p) ==
  /\ uplink = "wifi"
  /\ Begin(p, "wifi_get", EmptyWPAIface, EmptyPPPIface)

\* Line 148: loadWpaConfig takes the lock.
LoadLockWifi(p) ==
  /\ pc[p] = "wifi_get"
  /\ WPAmtx = 0
  /\ WPAmtx' = p
  /\ pc' = [pc EXCEPT ![p] = "wifi_load"]
  /\ UNCHANGED <<uplink, registry, plugins, wpaJson, wpaConf, pppJson, chapSecrets,
                 provider, PPPmtx>>
  /\ UNCHANGED <<wpa, ppp, enabled, interfaces, config, idx, err, response, calls>>

\* Lines 149-151 and 218-223: the file is read under the lock, the deferred
\* unlock runs as loadWpaConfig returns, and the handler answers.
LoadWifi(p) ==
  /\ pc[p] = "wifi_load"
  /\ LET loaded == loadWpaConfigLocked(wpaJson) IN
       /\ config' = [config EXCEPT ![p] = loaded.WPAs]
       /\ IF loaded.ok
          THEN /\ response' = [response EXCEPT ![p] = [code |-> 200, body |-> ""]]
               /\ pc' = [pc EXCEPT ![p] = "done"]
               /\ UNCHANGED err
          ELSE /\ err' = [err EXCEPT ![p] = "load error"]
               /\ Reply400(p, "Failed to load wpa configuration")
  /\ WPAmtx' = 0
  /\ UNCHANGED <<uplink, registry, plugins, wpaJson, wpaConf, pppJson, chapSecrets,
                 provider, PPPmtx>>
  /\ UNCHANGED <<wpa, ppp, enabled, interfaces, idx, calls>>

\* Lines 495-496: a read request for the PPP collection arrives.
GetPPP(p) ==
  /\ uplink = "ppp"
  /\ Begin(p, "ppp_get", EmptyWPAIface, EmptyPPPIface)

\* Line 350: loadPPPConfig takes the lock.
LoadLockPPP(p) ==
  /\ pc[p] = "ppp_get"
  /\ PPPmtx = 0
  /\ PPPmtx' = p
  /\ pc' = [pc EXCEPT ![p] = "ppp_load"]
  /\ UNCHANGED <<uplink, registry, plugins, wpaJson, wpaConf, WPAmtx, pppJson,
                 chapSecrets, provider>>
  /\ UNCHANGED <<wpa, ppp, enabled, interfaces, config, idx, err, response, calls>>

\* Lines 351-353 and 497-502.
LoadPPP(p) ==
  /\ pc[p] = "ppp_load"
  /\ LET loaded == loadPPPConfigLocked(pppJson) IN
       /\ config' = [config EXCEPT ![p] = loaded.PPPs]
       /\ IF loaded.ok
          THEN /\ response' = [response EXCEPT ![p] = [code |-> 200, body |-> ""]]
               /\ pc' = [pc EXCEPT ![p] = "done"]
               /\ UNCHANGED err
          ELSE /\ err' = [err EXCEPT ![p] = "load error"]
               /\ Reply400(p, "Failed to load ppp configuration")
  /\ PPPmtx' = 0
  /\ UNCHANGED <<uplink, registry, plugins, wpaJson, wpaConf, WPAmtx, pppJson,
                 chapSecrets, provider>>
  /\ UNCHANGED <<wpa, ppp, enabled, interfaces, idx, calls>>

(***************************************************************************)
(* Specification: two workers serve requests concurrently                  *)
(***************************************************************************)
\* The clients: worker Last serves one request; requests are taken while
\* Last has not taken its own, so the requests before it build the stored
\* collection and the request in flight when it arrives runs beside it.
Last == CHOOSE p \in Procs : \A q \in Procs : q <= p

Admitted == pc[Last] = "idle"

NextConc ==
  \/ \E p \in Procs : Admitted /\ SubmitWifiConc(p)
  \/ \E p \in Procs : ValidateWifi(p)
  \/ \E p \in Procs : RegisterWifi(p)
  \/ \E p \in Procs : LockWifi(p)
  \/ \E p \in Procs : MergeWifi(p)
  \/ \E p \in Procs : RenderWifi(p)
  \/ \E p \in Procs : UnlockWifi(p)
  \/ \E p \in Procs : PluginWifi(p)
  \/ \E p \in Procs : Admitted /\ GetWifi(p)
  \/ \E p \in Procs : LoadLockWifi(p)
  \/ \E p \in Procs : LoadWifi(p)
  \/ \E p \in Procs : Admitted /\ SubmitPPPConc(p)
  \/ \E p \in Procs : ValidatePPP(p)
  \/ \E p \in Procs : RegisterPPP(p)
  \/ \E p \in Procs : LockPPP(p)
  \/ \E p \in Procs : MergePPP(p)
  \/ \E p \in Procs : SecretsPPP(p)
  \/ \E p \in Procs : ProviderPPP(p)
  \/ \E p \in Procs : ReturnPPP(p)
  \/ \E p \in Procs : Admitted /\ GetPPP(p)
  \/ \E p \in Procs : LoadLockPPP(p)
  \/ \E p \in Procs : LoadPPP(p)

SpecConc == Init /\ [][NextConc]_vars

(***************************************************************************)
(* Properties                                                              *)
(***************************************************************************)
\* The collection a load of each store yields now.
StoredWPAs == loadWpaConfigLocked(wpaJson).WPAs

StoredPPPs == loadPPPConfigLocked(pppJson).PPPs

\* The Iface of every record of recs other than name, in stored order.
RECURSIVE OtherIfaces(_, _, _)
OtherIfaces(recs, name, i) ==
  IF i > Len(recs) THEN <<>>
  ELSE (IF recs[i].Iface # name THEN <<recs[i].Iface>> ELSE <<>>)
       \o OtherIfaces(recs, name, i + 1)

\* Worker p's Merge writes the JSON document in this step.
WifiPersists(p) == pc[p] = "wifi_merge" /\ pc'[p] = "wifi_render"

PPPPersists(p) == pc[p] = "ppp_merge" /\ pc'[p] = "ppp_secrets"

\* C1: Merge never deletes.  Whenever a Merge writes the collection, the
\* records whose Iface differs from the new record's Iface are all still in
\* the written collection, in their stored order, wherever they stood relative
\* to the matched record.
C1_MergeNeverDeletes ==
  [][\A p \in Procs :
       /\ WifiPersists(p) =>
            OtherIfaces(StoredWPAs', wpa[p].Iface, 1)
              = OtherIfaces(StoredWPAs, wpa[p].Iface, 1)
       /\ PPPPersists(p) =>
            OtherIfaces(StoredPPPs', ppp[p].Iface, 1)
              = OtherIfaces(StoredPPPs, ppp[p].Iface, 1)]_vars

\* No two records of recs have the same Iface.
UniqueIfaces(recs) ==
  \A i, j \in 1..Len(recs) : recs[i].Iface = recs[j].Iface => i = j

\* C2: Iface is a unique key.  In every reachable state neither persisted
\* collection holds two records with the same Iface.
C2_IfaceUnique == UniqueIfaces(StoredWPAs) /\ UniqueIfaces(StoredPPPs)

\* A Merge has just written a two-record collection whose last record is the
\* submitted one.
C2_Witness ==
  /\ pc[1] = "wifi_render"
  /\ Len(StoredWPAs) = 2
  /\ StoredWPAs[2] = wpa[1]

\* The positions of recs holding a record of that Iface.
Positions(recs, name) == {i \in 1..Len(recs) : recs[i].Iface = name}

\* new holds rec exactly once, whole, at the position the first record of
\* that Iface had in old, or last when old had none.
ReplacedWhole(old, new, rec) ==
  /\ Cardinality(Positions(new, rec.Iface)) = 1
  /\ \A i \in Positions(new, rec.Iface) :
       /\ new[i] = rec
       /\ IF Positions(old, rec.Iface) # {}
          THEN i \in Positions(old, rec.Iface)
               /\ \A k \in Positions(old, rec.Iface) : i <= k
          ELSE i = Len(new)

\* C3: whole-record replace.  Whenever a Merge of a record with non-empty
\* Iface writes the collection, the written collection holds exactly one
\* record of that Iface, equal to the submitted record in every field, at the
\* position of the stored record of that Iface if there was one and last
\* otherwise.
C3_WholeRecordReplace ==
  [][\A p \in Procs :
       /\ (WifiPersists(p) /\ wpa[p].Iface # "") =>
            ReplacedWhole(StoredWPAs, StoredWPAs', wpa[p])
       /\ (PPPPersists(p) /\ ppp[p].Iface # "") =>
            ReplacedWhole(StoredPPPs, StoredPPPs', ppp[p])]_vars

\* A Merge returned without error after replacing the second of two records
\* by a record with other Networks.
C3_Witness ==
  /\ pc[1] = "wifi_plugin"
  /\ Len(StoredWPAs) = 2
  /\ StoredWPAs[2] = wpa[1]
  /\ wpaConf["wlan2"] # <<>>
  /\ wpa[1].Iface = "wlan2"
  /\ wpa[1].Networks = <<HomeOff>>
  /\ wpaConf["wlan2"][1].networks # <<>>

\* C4: Merge is idempotent.  Once a worker's Merge has written the
\* collection, a second Merge with the same interface list and the same
\* record computes the collection that is already stored.
C4_MergeIdempotent ==
  \A p \in Procs :
    /\ pc[p] = "wifi_render" =>
         MergeWPAs(StoredWPAs, interfaces[p], wpa[p]) = StoredWPAs
    /\ pc[p] \in {"ppp_secrets", "ppp_provider"} =>
         MergePPPs(StoredPPPs, interfaces[p], ppp[p]) = StoredPPPs

\* A Merge has written a two-record collection whose first record had its
\* Enabled refreshed and whose second record is the submitted one.
C4_Witness ==
  /\ pc[1] = "ppp_secrets"
  /\ Len(StoredPPPs) = 2
  /\ StoredPPPs[2] = ppp[1]
  /\ StoredPPPs[1].Enabled = isPPPUplinkIfaceEnabled(StoredPPPs[1].Iface, interfaces[1])

\* Everything outside the handler's own locals that a request could change.
Durable == <<registry, plugins, wpaJson, wpaConf, pppJson, chapSecrets, provider>>

\* The record worker p decoded does not pass the handler's validation.
InvalidWifi(p) ==
  \/ ~MatchIfaceName(wpa[p].Iface)
  \/ \E i \in 1..Len(wpa[p].Networks) :
       WPANetworkValidate(IF wpa[p].Networks[i].KeyMgmt = ""
                          THEN [wpa[p].Networks[i] EXCEPT !.KeyMgmt = DefaultKeyMgmt]
                          ELSE wpa[p].Networks[i]) # ""

InvalidPPP(p) == PPPIfaceValidate(ppp[p]) # ""

\* C5: a rejected payload changes nothing.  The step a handler takes on a
\* record that fails validation ends the request with a 400 answer and leaves
\* the registry, both collections, every daemon file and the plugin manager
\* as they were, with no plugin call made.
C5_RejectedChangesNothing ==
  [][\A p \in Procs :
       /\ (pc[p] = "wifi_validate" /\ InvalidWifi(p) /\ pc'[p] # pc[p]) =>
            /\ pc'[p] = "done" /\ response'[p].code = 400
            /\ calls'[p] = <<>>
            /\ UNCHANGED Durable
       /\ (pc[p] = "ppp_validate" /\ InvalidPPP(p) /\ pc'[p] # pc[p]) =>
            /\ pc'[p] = "done" /\ response'[p].code = 400
            /\ calls'[p] = <<>>
            /\ UNCHANGED Durable]_vars

\* A request whose second network has a newline in its SSID was answered 400
\* while the store held a record.
C5_Witness ==
  /\ pc[1] = "done"
  /\ wpa[1].Networks = <<Home, Injected>>
  /\ response[1].code = 400
  /\ Len(StoredWPAs) > 0

\* C6: a failed registry call aborts.  The step in which updateInterfaceType
\* fails ends the request with an error; both collections, every daemon file
\* and the plugin manager are unchanged, Merge is not entered and no plugin
\* call is made.
C6_RegistryFailureAborts ==
  [][\A p \in Procs :
       (pc[p] \in {"wifi_register", "ppp_register"} /\ err'[p] = "registry error") =>
         /\ pc'[p] = "done" /\ response'[p].code = 400
         /\ calls'[p] = <<>>
         /\ UNCHANGED <<plugins, wpaJson, wpaConf, pppJson, chapSecrets, provider>>
         /\ UNCHANGED <<WPAmtx, PPPmtx>>]_vars

\* A valid request ended on a registry error while the store held a record.
C6_Witness ==
  /\ pc[1] = "done"
  /\ response[1] = [code |-> 400, body |-> "registry error"]
  /\ ~InvalidWifi(1)
  /\ wpa[1].Iface = "wlan1"
  /\ Len(StoredWPAs) > 0

\* C7: disabled interfaces have no live WPA configuration.  After a
\* successful update of interface X with Enabled = false, the file
\* wpa_X.conf is absent or holds no network block.
C7_DisabledHasNoLiveConfig ==
  \A p \in Procs :
    (/\ uplink = "wifi" /\ pc[p] = "done" /\ response[p].code = 200
     /\ ~wpa[p].Enabled /\ wpa[p].Iface \in FileIfaces) =>
      \/ wpaConf[wpa[p].Iface] = <<>>
      \/ wpaConf[wpa[p].Iface][1].networks = <<>>

\* C8: a fully-disabled WPA update restarts instead of enabling.  After a
\* successful update whose record has Enabled = false and no individually
\* disabled network, the plugin manager got restartPlugin and no enablePlugin.
C8_DisabledRestartsOnly ==
  \A p \in Procs :
    (/\ uplink = "wifi" /\ pc[p] = "done" /\ response[p].code = 200
     /\ ~wpa[p].Enabled
     /\ \A i \in 1..Len(wpa[p].Networks) : ~wpa[p].Networks[i].Disabled) =>
      calls[p] = <<"restartPlugin">>

\* The Username/Secret pairs of a collection, and those a chap-secrets text lists.
PairsOf(ppps) == {<<ppps[i].Username, ppps[i].Secret>> : i \in 1..Len(ppps)}

PairsListed(text) == {<<text[i][1], text[i][3]>> : i \in 1..Len(text)}

\* Worker p's Merge has written ppp.json and then chap-secrets, and still
\* holds the lock.
SecretsWritten(p) ==
  \/ pc[p] = "ppp_provider"
  \/ pc[p] = "ppp_unlock" /\ err[p] = "template: can't evaluate field"

\* C9: PPP secrets are not enablement-filtered.  Whenever a PPP Merge has
\* written the collection and the secrets file, chap-secrets lists the
\* Username/Secret pair of every record of the persisted collection, enabled
\* or not, one line per record, and no other pair.
C9_SecretsListEveryRecord ==
  \A p \in Procs :
    SecretsWritten(p) =>
      /\ chapSecrets # <<>>
      /\ Len(chapSecrets[1]) = Len(StoredPPPs)
      /\ PairsListed(chapSecrets[1]) = PairsOf(StoredPPPs)

\* The secrets file was written for a collection of two records with
\* different credentials, one of them disabled.
C9_Witness ==
  /\ pc[1] = "ppp_provider"
  /\ Len(StoredPPPs) = 2
  /\ ~StoredPPPs[1].Enabled
  /\ StoredPPPs[2].Enabled
  /\ StoredPPPs[1].Username # StoredPPPs[2].Username

\* C10: a valid PPP update runs to completion.  A request whose record
\* passes validation and that met no registry error and no file-write error
\* ends with success, its record persisted, chap-secrets and its provider
\* file written, and an enablePlugin or restartPlugin call made.
C10_ValidPPPCompletes ==
  \A p \in Procs :
    (/\ uplink = "ppp" /\ pc[p] = "done" /\ ~InvalidPPP(p)
     /\ response[p].body \notin {"registry error", "write error"}) =>
      /\ response[p].code = 200
      /\ \E i \in 1..Len(StoredPPPs) : StoredPPPs[i] = ppp[p]
      /\ chapSecrets # <<>>
      /\ provider[ppp[p].Iface] # <<>>
      /\ calls[p] # <<>>

\* The request of worker p ended because its record failed validation.
ValidationFailed(p) ==
  /\ pc[p] = "done"
  /\ \/ uplink = "wifi" /\ InvalidWifi(p)
     \/ uplink = "ppp" /\ InvalidPPP(p)

\* The request of worker p ended because its Merge returned an error: the
\* collection write, an artifact write or an artifact rendering failed.
MergeFailed(p) ==
  /\ pc[p] = "done"
  /\ err[p] \in {"write error", "template: can't evaluate field"}

\* C12: error classification.  A request that ends on a validation failure is
\* answered with a client-error status (4xx), and a request that ends on a
\* Merge failure is answered with a server-error status (5xx), so the two
\* are told apart by the status.
C12_ErrorClassification ==
  \A p \in Procs :
    /\ ValidationFailed(p) => response[p].code \in 400..499
    /\ MergeFailed(p) => response[p].code \in 500..599

\* Worker p's Merge fails on the write of the JSON document in this step.
WifiWriteFails(p) == pc[p] = "wifi_merge" /\ pc'[p] = "wifi_unlock"

PPPWriteFails(p) == pc[p] = "ppp_merge" /\ pc'[p] = "ppp_unlock"

\* C17: collection-write failure.  When the write of the JSON document
\* fails, Merge returns that error to its caller, the durable collection is
\* the one that was there before the call, and the call writes or changes no
\* daemon file.
C17_WriteFailureKeepsCollection ==
  [][\A p \in Procs :
       /\ WifiWriteFails(p) =>
            /\ err'[p] = "write error"
            /\ StoredWPAs' = StoredWPAs
            /\ UNCHANGED wpaConf
       /\ PPPWriteFails(p) =>
            /\ err'[p] = "write error"
            /\ StoredPPPs' = StoredPPPs
            /\ UNCHANGED <<chapSecrets, provider>>
       /\ (pc[p] \in {"wifi_unlock", "ppp_unlock"} /\ err[p] # "" /\ pc'[p] = "done") =>
            /\ response'[p].body = err[p]
            /\ response'[p].code # 200
            /\ UNCHANGED <<wpaJson, wpaConf, pppJson, chapSecrets, provider>>]_vars

\* Worker p is between the load and the return of a Merge or Load of the
\* WPA store, or of the PPP store.
InWifiStore(p) == pc[p] \in {"wifi_merge", "wifi_render", "wifi_unlock", "wifi_load"}

InPPPStore(p) == pc[p] \in {"ppp_merge", "ppp_secrets", "ppp_provider", "ppp_unlock", "ppp_load"}

\* C11: per-store mutual exclusion.  At most one request is between load and
\* return of a Merge or Load of a store; that request holds the store's lock
\* the whole time; and every step that changes the store's JSON file or
\* daemon files is a step of that request.
C11_StoreMutualExclusion ==
  /\ [](\A p, q \in Procs :
          /\ (InWifiStore(p) /\ InWifiStore(q)) => p = q
          /\ (InPPPStore(p) /\ InPPPStore(q)) => p = q
          /\ InWifiStore(p) => WPAmtx = p
          /\ InPPPStore(p) => PPPmtx = p)
  /\ [][/\ (wpaJson' # wpaJson \/ wpaConf' # wpaConf) =>
             \E p \in Procs : /\ InWifiStore(p) /\ WPAmtx = p
                              /\ \A q \in Procs \ {p} : pc'[q] = pc[q]
        /\ (pppJson' # pppJson \/ chapSecrets' # chapSecrets \/ provider' # provider) =>
             \E p \in Procs : /\ InPPPStore(p) /\ PPPmtx = p
                              /\ \A q \in Procs \ {p} : pc'[q] = pc[q]]_vars

\* One update is writing the daemon files of the WPA store while the other
\* update, for the other interface, waits for the lock.
C11_Witness ==
  /\ pc[1] = "wifi_render" /\ idx[1] = 2
  /\ pc[2] = "wifi_lock"
  /\ wpa[1].Iface # wpa[2].Iface
  /\ WPAmtx = 1

\* C20: the store lock is released on every exit path.  A lock is held only
\* by a request that is inside a Merge or Load of that store, and the step
\* in which a Merge or Load returns, with success or with a write or render
\* error, leaves the lock free, so a request that waits for the lock never
\* waits for a finished request.
C20_LockReleasedOnExit ==
  /\ [](\A p \in Procs :
          /\ WPAmtx = p => InWifiStore(p)
          /\ PPPmtx = p => InPPPStore(p))
  /\ [][\A p \in Procs :
          /\ (InWifiStore(p) /\ ~InWifiStore(p)') => WPAmtx' = 0
          /\ (InPPPStore(p) /\ ~InPPPStore(p)') => PPPmtx' = 0]_vars

\* The first request left its Merge on a write error and the second request
\* has taken the lock since.
C20_Witness ==
  /\ pc[1] = "done" /\ response[1].body = "write error"
  /\ pc[2] = "wifi_merge" /\ WPAmtx = 2

\* Both workers have finished an update of the WPA store with success.
BothWifiDone ==
  /\ uplink = "wifi"
  /\ \A p \in Procs : pc[p] = "done" /\ response[p].code = 200 /\ wpa[p].Iface # ""

\* The two finished updates ran side by side: the registry call of the
\* request taken second came back before the other request's call had set
\* its own interface.
Overlapped ==
  /\ FirstNamed(wpa[1].Iface, interfaces[Last])[1].Enabled # wpa[1].Enabled
  /\ FirstNamed(wpa[Last].Iface, interfaces[1])[1].Enabled = wpa[Last].Enabled
  /\ FirstNamed(wpa[Last].Iface, interfaces[1])[1].Type = "Uplink"

\* C18: no lost update between concurrent requests of one technology.  When
\* two updates of two distinct interfaces run side by side and both end with
\* success, the stored collection holds a record for each interface, equal
\* to the record submitted.
C18_NoLostUpdate ==
  (BothWifiDone /\ wpa[1].Iface # wpa[2].Iface /\ Overlapped) =>
    \A p \in Procs : \E i \in 1..Len(StoredWPAs) : StoredWPAs[i] = wpa[p]

\* The stored record of interface name, as a set (empty when there is none).
StoredWifi(name) == {StoredWPAs[i] : i \in {j \in 1..Len(StoredWPAs) : StoredWPAs[j].Iface = name}}

\* Two updates of one interface with different Enabled flags have both ended
\* with success.
SameIfaceBothDone ==
  /\ BothWifiDone
  /\ wpa[1].Iface = wpa[2].Iface
  /\ wpa[1].Enabled # wpa[2].Enabled

\* C19: registry and store agree at quiescence.  After two updates
\* of one interface with different Enabled flags have both ended with
\* success, the stored record's Enabled equals the registry's Enabled for
\* that interface.
C19_RegistryAndStoreAgree ==
  SameIfaceBothDone =>
    \A r \in StoredWifi(wpa[1].Iface) :
      r.Enabled = FirstNamed(wpa[1].Iface, registry)[1].Enabled

\* The characters t are tokens of the key-management set separated by single
\* spaces: t is not empty, has no space at either end and no two spaces in
\* a row, and every run between spaces is one of the three tokens.
WellFormedKeyMgmt(t) ==
  /\ t # <<>>
  /\ t[1] # " " /\ t[Len(t)] # " "
  /\ \A i \in 1..(Len(t) - 1) : ~(t[i] = " " /\ t[i + 1] = " ")
  /\ \A i \in 1..Len(t) : \A j \in i..Len(t) :
       (/\ \A k \in i..j : t[k] # " "
        /\ (i = 1 \/ t[i - 1] = " ")
        /\ (j = Len(t) \/ t[j + 1] = " ")) =>
         SubSeq(t, i, j) \in {<<"W", "P", "A", "-", "P", "S", "K">>,
                              <<"W", "P", "A", "-", "P", "S", "K", "-", "S", "H", "A", "2", "5", "6">>,
                              <<"S", "A", "E">>}

\* The network's fields other than KeyMgmt pass WPANetwork.Validate.
OtherFieldsValid(n) ==
  /\ ~ContainsNewline(n.Password) /\ ~ContainsNewline(n.SSID)
  /\ (n.Priority = "" \/ Atoi(n.Priority).ok)
  /\ (n.BSSID = "" \/ MatchMAC(n.BSSID))

\* C14: key-management grammar.  For a network whose other fields are valid,
\* WPANetwork.Validate accepts KeyMgmt exactly when it is a non-empty
\* sequence of tokens of {WPA-PSK, WPA-PSK-SHA256, SAE} separated by single
\* spaces; the handler goes on with a non-empty KeyMgmt exactly in that case
\* and answers 400 otherwise.
C14_KeyMgmtGrammar ==
  \A p \in Procs : \A i \in 1..Len(wpa[p].Networks) :
    LET n == wpa[p].Networks[i] IN
      OtherFieldsValid(n) =>
        /\ (WPANetworkValidate(n) = "") <=> WellFormedKeyMgmt(Text(n.KeyMgmt))
        /\ (pc[p] = "wifi_register" /\ n.KeyMgmt # "" /\ Len(wpa[p].Networks) = 1) =>
             WellFormedKeyMgmt(Text(n.KeyMgmt))
        /\ (pc[p] = "done" /\ n.KeyMgmt # "" /\ Len(wpa[p].Networks) = 1
            /\ response[p].code = 400 /\ err[p] = "") =>
             ~WellFormedKeyMgmt(Text(n.KeyMgmt))

\* A KeyMgmt of two valid tokens with two spaces between them was answered
\* 400, and so was one with a trailing space.
C14_Witness ==
  /\ pc[1] = "done" /\ response[1].code = 400
  /\ wpa[1].Networks[1].KeyMgmt \in {"SAE" \o " " \o " " \o "WPA-PSK", "SAE" \o " "}

\* Every network block of every wpa_<Iface>.conf, and the value of its line key.
ConfBlocks ==
  UNION {{wpaConf[f][1].networks[j] : j \in 1..Len(wpaConf[f][1].networks)} :
           f \in {g \in FileIfaces : wpaConf[g] # <<>>}}

LineValues(block, key) == {block[j][2] : j \in {k \in 1..Len(block) : block[k][1] = key}}

\* Every network of every stored WPA record.
StoredNetworks ==
  UNION {{StoredWPAs[i].Networks[j] : j \in 1..Len(StoredWPAs[i].Networks)} :
           i \in 1..Len(StoredWPAs)}

\* C13: persisted KeyMgmt is always valid.  Every stored network and every
\* rendered network block has a non-empty KeyMgmt made of tokens of
\* {WPA-PSK, WPA-PSK-SHA256, SAE}, and a network submitted with an empty
\* KeyMgmt in an accepted request is stored with "WPA-PSK WPA-PSK-SHA256".
C13_PersistedKeyMgmtValid ==
  /\ \A n \in StoredNetworks : WellFormedKeyMgmt(Text(n.KeyMgmt))
  /\ \A b \in ConfBlocks : \A v \in LineValues(b, "key_mgmt") : WellFormedKeyMgmt(Text(v))
  /\ \A p \in Procs :
       (pc[p] = "done" /\ response[p].code = 200 /\ wpa[p].Iface # "") =>
         \A r \in StoredWifi(wpa[p].Iface) : \A j \in 1..Len(wpa[p].Networks) :
           wpa[p].Networks[j].KeyMgmt = "" =>
             /\ j <= Len(r.Networks)
             /\ r.Networks[j].KeyMgmt = "WPA-PSK WPA-PSK-SHA256"

\* The WPA record w, or the PPP record q, has a newline in an SSID, a
\* Password, the Username or the Secret.
NewlineInWifi(w) ==
  \E j \in 1..Len(w.Networks) :
    \/ \E k \in 1..Len(Text(w.Networks[j].SSID)) : Text(w.Networks[j].SSID)[k] = "\n"
    \/ \E k \in 1..Len(Text(w.Networks[j].Password)) : Text(w.Networks[j].Password)[k] = "\n"

NewlineInPPP(q) ==
  \/ \E k \in 1..Len(Text(q.Username)) : Text(q.Username)[k] = "\n"
  \/ \E k \in 1..Len(Text(q.Secret)) : Text(q.Secret)[k] = "\n"

\* C15: newline injection is rejected.  A record with a newline in an SSID,
\* a Password, the Username or the Secret fails validation whatever its
\* other fields are: its request never gets past the validation step and is
\* answered 400.  So no stored record, no network block and no chap-secrets
\* line has a newline in one of these fields.
C15_NewlineRejected ==
  /\ \A p \in Procs :
       /\ \A j \in 1..Len(wpa[p].Networks) :
            NewlineInWifi([wpa[p] EXCEPT !.Networks = <<wpa[p].Networks[j]>>]) =>
              WPANetworkValidate(wpa[p].Networks[j]) # ""
       /\ NewlineInPPP(ppp[p]) => PPPIfaceValidate(ppp[p]) # ""
       /\ (NewlineInWifi(wpa[p]) \/ NewlineInPPP(ppp[p])) =>
            \/ pc[p] \in {"wifi_validate", "ppp_validate"}
            \/ pc[p] = "done" /\ response[p].code = 400 /\ err[p] = ""
  /\ \A i \in 1..Len(StoredWPAs) : ~NewlineInWifi(StoredWPAs[i])
  /\ \A i \in 1..Len(StoredPPPs) : ~NewlineInPPP(StoredPPPs[i])
  /\ \A b \in ConfBlocks : \A v \in LineValues(b, "ssid") \cup LineValues(b, "psk") :
       \A k \in 1..Len(Text(v)) : Text(v)[k] # "\n"
  /\ chapSecrets # <<>> =>
       \A j \in 1..Len(chapSecrets[1]) :
         ~NewlineInPPP([EmptyPPPIface EXCEPT !.Username = chapSecrets[1][j][1],
                                             !.Secret = chapSecrets[1][j][3]])

\* A request whose second network has a newline in its password was answered
\* 400 while the store and the daemon file held the record of an earlier one.
C15_Witness ==
  /\ pc[1] = "done" /\ response[1].code = 400
  /\ wpa[1].Networks = <<Home, InjectedPassword>>
  /\ Len(StoredWPAs) > 0
  /\ ConfBlocks # {}

\* The flag a refreshed record is to carry: the Enabled flag of the
\* entry of list named name when that entry is an uplink of subtype sub,
\* false when the entry is of another type or subtype or there is none.
ExpectedEnabled(name, list, sub) ==
  \E k \in 1..Len(list) :
    /\ list[k].Name = name
    /\ \A j \in 1..(k - 1) : list[j].Name # name
    /\ list[k].Type = "Uplink" /\ list[k].Subtype = sub
    /\ list[k].Enabled

\* The records of recs that the scan passes before it meets one named name:
\* all of them when there is none.
ScannedBefore(recs, name) ==
  {i \in 1..Len(recs) : \A j \in 1..i : recs[j].Iface # name}

WifiRenderFails(p) == pc[p] = "wifi_render" /\ err'[p] # ""

PPPRenderFails(p) == pc[p] \in {"ppp_secrets", "ppp_provider"} /\ err'[p] # ""

\* C21: a render failure is fail-fast and comes after persistence.  In the
\* step in which rendering or writing the daemon file of the k-th record
\* fails, the render loop ends with the error, the JSON document holds the
\* new collection, the files written earlier in the call are in place and
\* no file of another record is touched; from there to the answer, which
\* carries the error, no document and no daemon file is written.
C21_RenderFailsFast ==
  [][\A p \in Procs :
       /\ WifiRenderFails(p) =>
            /\ pc'[p] = "wifi_unlock"
            /\ wpaJson' = <<MarshalWPAs(config[p])>> /\ UNCHANGED wpaJson
            /\ \A f \in FileIfaces \ {config[p][idx[p]].Iface} : wpaConf'[f] = wpaConf[f]
            /\ \A j \in 1..(idx[p] - 1) :
                 config[p][j].Enabled =>
                   wpaConf'[config[p][j].Iface] = <<RenderWPA(config[p][j])>>
       /\ PPPRenderFails(p) =>
            /\ pc'[p] = "ppp_unlock"
            /\ pppJson' = <<[PPPs |-> config[p]]>> /\ UNCHANGED pppJson
            /\ pc[p] = "ppp_secrets" => UNCHANGED provider
            /\ pc[p] = "ppp_provider" =>
                 /\ chapSecrets' = <<ChapSecrets(config[p], 1)>>
                 /\ \A f \in FileIfaces \ {config[p][idx[p]].Iface} : provider'[f] = provider[f]
       /\ (pc[p] \in {"wifi_unlock", "ppp_unlock"} /\ err[p] # "" /\ pc'[p] # pc[p]) =>
            /\ pc'[p] = "done" /\ response'[p].body = err[p]
            /\ UNCHANGED <<wpaJson, wpaConf, pppJson, chapSecrets, provider>>]_vars

\* The write of the second record's file has failed: the file of the first
\* record, written in this call, is in place and the document is written.
C21_Witness ==
  /\ pc[1] = "wifi_unlock" /\ err[1] = "write error"
  /\ idx[1] = 2 /\ Len(config[1]) = 2
  /\ config[1][1].Enabled /\ config[1][2].Enabled
  /\ wpaConf[config[1][1].Iface] = <<RenderWPA(config[1][1])>>
  /\ wpaJson = <<MarshalWPAs(config[1])>>

\* The JSON document of the store is missing or cannot be parsed.
WifiUnloadable == wpaJson = <<>> \/ wpaJson = <<TruncatedJson>>

PPPUnloadable == pppJson = <<>> \/ pppJson = <<TruncatedJson>>

MakesPluginCalls(p) == calls'[p] # calls[p] /\ calls'[p] # <<>>

Called(p, name) == \E k \in 1..Len(calls'[p]) : calls'[p][k] = name

\* C23: every successful update (re)starts the daemon exactly once.  The
\* plugin calls are made in the step after a Merge that returned no error,
\* by a worker that no longer holds the store lock, and the request is
\* answered 200; restartPlugin is called exactly when enablePlugin was not
\* called or answered false (the plugin was running already), so the daemon
\* gets one fresh start or one restart.  A request whose Merge failed makes
\* no plugin call.
C23_RestartExactlyOnce ==
  [][\A p \in Procs :
       /\ MakesPluginCalls(p) =>
            /\ pc[p] \in {"wifi_plugin", "ppp_unlock"} /\ err[p] = ""
            /\ WPAmtx' # p /\ PPPmtx' # p
            /\ pc[p] = "wifi_plugin" => WPAmtx # p
            /\ response'[p].code = 200
            /\ LET name     == IF pc[p] = "wifi_plugin" THEN "WIFI-UPLINK" ELSE "PPP"
                   returned == Called(p, "enablePlugin") /\ ~plugins[name]
               IN  /\ Called(p, "restartPlugin") <=> ~returned
                   /\ Len(calls'[p]) = (IF Called(p, "enablePlugin") THEN 1 ELSE 0)
                                       + (IF Called(p, "restartPlugin") THEN 1 ELSE 0)
                   /\ pc[p] = "ppp_unlock" => Called(p, "enablePlugin")
                   /\ pc[p] = "wifi_plugin" =>
                        (Called(p, "enablePlugin") <=>
                           \E j \in 1..Len(wpa[p].Networks) : ~wpa[p].Networks[j].Disabled)
       /\ (pc[p] \in {"wifi_plugin", "wifi_unlock", "ppp_unlock"} /\ pc'[p] = "done") =>
            (calls'[p] # <<>> <=> err[p] = "")]_vars

\* An update with a network switched on has ended with success while the
\* plugin was running: enablePlugin answered false and restartPlugin followed.
C23_Witness ==
  /\ pc[1] = "done" /\ response[1].code = 200
  /\ calls[1] = <<"enablePlugin", "restartPlugin">>

\* The position in networks of the m-th entry that is not Disabled.
NthEnabled(networks, m) ==
  CHOOSE j \in 1..Len(networks) :
    /\ ~networks[j].Disabled
    /\ Cardinality({k \in 1..j : ~networks[k].Disabled}) = m

\* The block holds the lines of entry n and no other: ssid, psk and key_mgmt
\* once each, priority and bssid once each when the field is not empty.
BlockOf(block, n) ==
  /\ LineValues(block, "ssid") = {n.SSID}
  /\ LineValues(block, "psk") = {n.Password}
  /\ LineValues(block, "key_mgmt") = {n.KeyMgmt}
  /\ LineValues(block, "priority") = (IF n.Priority # "" THEN {n.Priority} ELSE {})
  /\ LineValues(block, "bssid") = (IF n.BSSID # "" THEN {n.BSSID} ELSE {})
  /\ Len(block) = 3 + (IF n.Priority # "" THEN 1 ELSE 0) + (IF n.BSSID # "" THEN 1 ELSE 0)

\* The Merge of worker p's update has returned without an error.
WifiMergeSucceeded(p) ==
  \/ pc[p] = "wifi_unlock" /\ err[p] = ""
  \/ pc[p] = "wifi_plugin"
  \/ pc[p] = "done" /\ response[p].code = 200 /\ uplink = "wifi"

\* C24: WPA rendering content.  After a successful WPA Merge, the file of
\* every stored record with Enabled = true holds one network block for each
\* entry of Networks that is not Disabled, in list order, and no other
\* block; a block carries its entry's ssid, psk and key_mgmt, a priority
\* line only when Priority is not empty and a bssid line only when BSSID is
\* not empty.
C24_RenderedContent ==
  \A p \in Procs :
    WifiMergeSucceeded(p) =>
      \A i \in 1..Len(StoredWPAs) :
        StoredWPAs[i].Enabled =>
          LET r == StoredWPAs[i] IN
            /\ wpaConf[r.Iface] # <<>>
            /\ LET blocks == wpaConf[r.Iface][1].networks IN
                 /\ Len(blocks) = Cardinality({k \in 1..Len(r.Networks) : ~r.Networks[k].Disabled})
                 /\ \A m \in 1..Len(blocks) :
                      BlockOf(blocks[m], r.Networks[NthEnabled(r.Networks, m)])

\* A successful update of three networks, the second switched off: the file
\* holds two blocks, the first with priority and bssid lines, the second
\* without.
C24_Witness ==
  /\ pc[1] = "done" /\ response[1].code = 200
  /\ wpa[1].Enabled /\ wpa[1].Networks = <<Pinned, HomeOff, Home>>
  /\ Len(wpaConf[wpa[1].Iface][1].networks) = 2
  /\ Len(wpaConf[wpa[1].Iface][1].networks[1]) = 5
  /\ Len(wpaConf[wpa[1].Iface][1].networks[2]) = 3
  /\ Len(StoredWPAs) = 2

=============================================================================
